---- MODULE Spec2Model ----
(***************************************************************************)
(* Model of extract_colors.py: get_unique_colors(image_path).              *)
(*                                                                         *)
(* One call of the function is a sequential process; pc is its position.   *)
(* The input is the file behind image_path (missing, truncated, or a       *)
(* decodable image with a colour histogram).  Strings are sequences of     *)
(* one-character strings, so that formatting is computed digit by digit.   *)
(***************************************************************************)
EXTENDS Integers, Sequences, FiniteSets, TLC

VARIABLES file, image, pc, fileHeld, colors, idx, unique_hexes, seen,
          stdout, exc, ret, formatted

vars == <<file, image, pc, fileHeld, colors, idx, unique_hexes, seen,
          stdout, exc, ret, formatted>>

(* ------------------------------ bounds --------------------------------- *)

\* Largest number of distinct colours of an enumerated image.
MaxEntries == 3

(* -------------------------- program constants -------------------------- *)

\* img.getcolors(maxcolors=1000000)
maxcolors == 1000000

\* if count > 100
Threshold == 100

(* ------------------------------ inputs --------------------------------- *)

\* RGB triples; channels below 16, at 16/17, and large ones.
Colors == { <<0, 0, 0>>, <<1, 16, 0>>, <<17, 0, 0>>, <<255, 171, 10>> }

\* Pixel counts around the threshold and the spec's 500 / 200 example.
Counts == { Threshold, Threshold + 1, 200, 500 }

\* A histogram entry is <<count, color>>, as returned by Image.getcolors.
Entries == Counts \X Colors

Range(s) == { s[i] : i \in 1..Len(s) }

\* Histograms: every colour occurs in at most one entry, in any order.
Histograms ==
  UNION { { h \in [1..n -> Entries] :
              \A i, j \in 1..n : h[i][2] = h[j][2] => i = j } : n \in 0..MaxEntries }

\* An image: its number of distinct colours and, when that number is small
\* enough to enumerate, its histogram.  An image with more than maxcolors
\* distinct colours is not enumerated: getcolors never looks at its entries.
Images ==
  { [distinct |-> Len(h), hist |-> h] : h \in Histograms }
    \cup { [distinct |-> maxcolors + 1, hist |-> << >>] }

NoImage == [distinct |-> 0, hist |-> << >>]

(* ------------------------- "#{:02x}{:02x}{:02x}" ----------------------- *)

HexDigits == << "0", "1", "2", "3", "4", "5", "6", "7",
                "8", "9", "a", "b", "c", "d", "e", "f" >>

Digit(n) == HexDigits[n + 1]

\* format type 'x': lowercase base-16 digits, no padding.
RECURSIVE ToHex(_)
ToHex(n) == IF n < 16 THEN << Digit(n) >>
            ELSE ToHex(n \div 16) \o << Digit(n % 16) >>

Pad2Missing(s) == s

\* format width '02': pad with "0" on the left to a minimum width of 2.
Pad2(s) == IF Len(s) < 2 THEN << "0" >> \o s ELSE s

FormatHex(color) ==
  << "#" >> \o Pad2(ToHex(color[1])) \o Pad2(ToHex(color[2])) \o Pad2(ToHex(color[3]))

(* ----------------------- img.getcolors(maxcolors) ---------------------- *)

None == [none |-> TRUE, list |-> << >>]

getcolorsTruncating(im, maxc) == [none |-> FALSE, list |-> im.hist]

\* Returns None when the image has more than maxc distinct colours.
getcolors(im, maxc) ==
  IF im.distinct > maxc THEN None ELSE [none |-> FALSE, list |-> im.hist]

(* -------------- colors.sort(key=lambda x: x[0], reverse=True) ---------- *)

\* Insert e behind every element whose count is >= e's count.
RECURSIVE InsertDesc(_, _)
InsertDesc(e, s) ==
  IF s = << >> THEN << e >>
  ELSE IF Head(s)[1] >= e[1] THEN << Head(s) >> \o InsertDesc(e, Tail(s))
  ELSE << e >> \o s

RECURSIVE InsertDescBeforeEqual(_, _)
InsertDescBeforeEqual(e, s) ==
  IF s = << >> THEN << e >>
  ELSE IF Head(s)[1] > e[1] THEN << Head(s) >> \o InsertDescBeforeEqual(e, Tail(s))
  ELSE << e >> \o s

RECURSIVE SortUnstable(_)
SortUnstable(s) ==
  IF s = << >> THEN << >>
  ELSE InsertDescBeforeEqual(s[Len(s)], SortUnstable(SubSeq(s, 1, Len(s) - 1)))

SortMissing(s) == s

\* list.sort is stable, also with reverse=True: entries with equal counts
\* keep their original relative order.
RECURSIVE SortDesc(_)
SortDesc(s) ==
  IF s = << >> THEN << >>
  ELSE InsertDesc(s[Len(s)], SortDesc(SubSeq(s, 1, Len(s) - 1)))

(* ------------------------------ output --------------------------------- *)

BannerLine == [kind |-> "banner", hex |-> << >>, count |-> 0, msg |-> ""]
ColorLine(h, c) == [kind |-> "color", hex |-> h, count |-> c, msg |-> ""]
ErrorLine(m) == [kind |-> "error", hex |-> << >>, count |-> 0, msg |-> m]

Pending == [kind |-> "pending", val |-> << >>]
Returned(v) == [kind |-> "value", val |-> v]
ReturnedNone == [kind |-> "none", val |-> << >>]
Raised == [kind |-> "raise", val |-> << >>]

AcceptsAtThreshold(count) == count >= Threshold

\* if count > 100
Accepts(count) == count > Threshold

(* ------------------------------ states --------------------------------- *)

Init ==
  /\ file \in {"missing", "truncated", "image"}
  /\ image \in (IF file = "image" THEN Images ELSE {NoImage})
  /\ pc = "open"
  /\ fileHeld = FALSE
  /\ colors = None
  /\ idx = 0
  /\ unique_hexes = << >>
  /\ seen = {}
  /\ stdout = << >>
  /\ exc = ""
  /\ ret = Pending
  /\ formatted = {}

\* An exception raised inside the try block transfers control to the handler.
Raise(e) == pc' = "except" /\ exc' = e

\* img = Image.open(image_path)
Open ==
  /\ pc = "open"
  /\ IF file = "missing"
       THEN Raise("FileNotFoundError") /\ UNCHANGED fileHeld
       ELSE pc' = "convert" /\ fileHeld' = TRUE /\ UNCHANGED exc
  /\ UNCHANGED <<file, image, colors, idx, unique_hexes, seen, stdout, ret, formatted>>

\* img = img.convert("RGB"): loads the pixel data.  The function itself never
\* closes the file; whether the library closes it once the data is loaded
\* depends on the format (closed \in BOOLEAN).
Convert ==
  /\ pc = "convert"
  /\ IF file = "truncated"
       THEN Raise("OSError") /\ UNCHANGED fileHeld
       ELSE /\ pc' = "getcolors"
            /\ \E closed \in BOOLEAN : fileHeld' = (fileHeld /\ ~closed)
            /\ UNCHANGED exc
  /\ UNCHANGED <<file, image, colors, idx, unique_hexes, seen, stdout, ret, formatted>>

\* colors = img.getcolors(maxcolors=1000000)
GetColors ==
  /\ pc = "getcolors"
  /\ colors' = getcolors(image, maxcolors)
  /\ pc' = "sort"
  /\ UNCHANGED <<file, image, fileHeld, idx, unique_hexes, seen, stdout, exc, ret, formatted>>

\* colors.sort(...): AttributeError when colors is None.
Sort ==
  /\ pc = "sort"
  /\ IF colors.none
       THEN Raise("AttributeError") /\ UNCHANGED colors
       ELSE /\ colors' = [colors EXCEPT !.list = SortDesc(colors.list)]
            /\ pc' = "banner"
            /\ UNCHANGED exc
  /\ UNCHANGED <<file, image, fileHeld, idx, unique_hexes, seen, stdout, ret, formatted>>

\* unique_hexes = []; seen = set(); print("Extracted Colors:")
Banner ==
  /\ pc = "banner"
  /\ unique_hexes' = << >>
  /\ seen' = {}
  /\ stdout' = Append(stdout, BannerLine)
  /\ idx' = 1
  /\ pc' = "loop"
  /\ UNCHANGED <<file, image, fileHeld, colors, exc, ret, formatted>>

\* The same, with the write to standard output failing.
BannerFail ==
  /\ pc = "banner"
  /\ unique_hexes' = << >>
  /\ seen' = {}
  /\ Raise("OSError")
  /\ UNCHANGED <<file, image, fileHeld, colors, idx, stdout, ret, formatted>>

InLoop == pc = "loop" /\ idx <= Len(colors.list)

\* One iteration in which the entry is not accepted.
LoopSkip ==
  /\ InLoop
  /\ LET count == colors.list[idx][1]
         color == colors.list[idx][2]
         hex_val == FormatHex(color)
     IN /\ hex_val \in seen \/ ~Accepts(count)
        /\ formatted' = formatted \cup { <<color, hex_val>> }
  /\ idx' = idx + 1
  /\ UNCHANGED <<file, image, pc, fileHeld, colors, unique_hexes, seen, stdout, exc, ret>>

LoopAcceptNoSeen ==
  /\ InLoop
  /\ LET count == colors.list[idx][1]
         color == colors.list[idx][2]
         hex_val == FormatHex(color)
     IN /\ hex_val \notin seen /\ Accepts(count)
        /\ formatted' = formatted \cup { <<color, hex_val>> }
        /\ unique_hexes' = Append(unique_hexes, hex_val)
        /\ stdout' = Append(stdout, ColorLine(hex_val, count))
  /\ idx' = idx + 1
  /\ UNCHANGED <<file, image, pc, fileHeld, colors, seen, exc, ret>>

LoopAcceptNoPrint ==
  /\ InLoop
  /\ LET count == colors.list[idx][1]
         color == colors.list[idx][2]
         hex_val == FormatHex(color)
     IN /\ hex_val \notin seen /\ Accepts(count)
        /\ formatted' = formatted \cup { <<color, hex_val>> }
        /\ unique_hexes' = Append(unique_hexes, hex_val)
        /\ seen' = seen \cup { hex_val }
  /\ idx' = idx + 1
  /\ UNCHANGED <<file, image, pc, fileHeld, colors, stdout, exc, ret>>

\* One iteration in which the entry is accepted and its line is printed.
LoopAccept ==
  /\ InLoop
  /\ LET count == colors.list[idx][1]
         color == colors.list[idx][2]
         hex_val == FormatHex(color)
     IN /\ hex_val \notin seen /\ Accepts(count)
        /\ formatted' = formatted \cup { <<color, hex_val>> }
        /\ unique_hexes' = Append(unique_hexes, hex_val)
        /\ seen' = seen \cup { hex_val }
        /\ stdout' = Append(stdout, ColorLine(hex_val, count))
  /\ idx' = idx + 1
  /\ UNCHANGED <<file, image, pc, fileHeld, colors, exc, ret>>

\* The same, with the write to standard output failing: the entry has been
\* appended and added to seen, its line is not written.
LoopAcceptFail ==
  /\ InLoop
  /\ LET count == colors.list[idx][1]
         color == colors.list[idx][2]
         hex_val == FormatHex(color)
     IN /\ hex_val \notin seen /\ Accepts(count)
        /\ formatted' = formatted \cup { <<color, hex_val>> }
        /\ unique_hexes' = Append(unique_hexes, hex_val)
        /\ seen' = seen \cup { hex_val }
  /\ Raise("OSError")
  /\ UNCHANGED <<file, image, fileHeld, colors, idx, stdout, ret>>

\* return unique_hexes
Return ==
  /\ pc = "loop"
  /\ idx > Len(colors.list)
  /\ ret' = Returned(unique_hexes)
  /\ pc' = "done"
  /\ UNCHANGED <<file, image, fileHeld, colors, idx, unique_hexes, seen, stdout, exc, formatted>>

\* except Exception as e: print(f"Error: {e}"); the function falls off its
\* end and returns None.
Handler ==
  /\ pc = "except"
  /\ stdout' = Append(stdout, ErrorLine(exc))
  /\ ret' = ReturnedNone
  /\ pc' = "done"
  /\ UNCHANGED <<file, image, fileHeld, colors, idx, unique_hexes, seen, exc, formatted>>

\* The same, with the write to standard output failing: the print is not
\* inside any try block, so its exception leaves the function.
HandlerFail ==
  /\ pc = "except"
  /\ ret' = Raised
  /\ pc' = "done"
  /\ UNCHANGED <<file, image, fileHeld, colors, idx, unique_hexes, seen, stdout, exc, formatted>>

Next ==
  \/ Open
  \/ Convert
  \/ GetColors
  \/ Sort
  \/ Banner
  \/ BannerFail
  \/ LoopSkip
  \/ LoopAccept
  \/ LoopAcceptFail
  \/ Return
  \/ Handler
  \/ HandlerFail

Spec == Init /\ [][Next]_vars

(* ------------------------- helpers of the claims ------------------------ *)

IsColorLine(l) == l.kind = "color"
ColorLines == SelectSeq(stdout, IsColorLine)
BannerCount == Cardinality({ i \in 1..Len(stdout) : stdout[i].kind = "banner" })
ErrorCount == Cardinality({ i \in 1..Len(stdout) : stdout[i].kind = "error" })
NoDuplicates(s) == \A i, j \in 1..Len(s) : s[i] = s[j] => i = j
OverThreshold(e) == e[1] > 100
Succeeded == pc = "done" /\ ret.kind = "value"
Failed == pc = "except" \/ (pc = "done" /\ ret.kind # "value")

\* The value of a sequence of lowercase hexadecimal digits.
DigitVal(ch) == CHOOSE v \in 0..15 : HexDigits[v + 1] = ch
ChannelOf(h, k) == 16 * DigitVal(h[2 * k]) + DigitVal(h[2 * k + 1])

(* -------------------------------- C1 ------------------------------------ *)

\* C1: the returned palette is exactly the count-sorted histogram restricted
\* to the entries whose count strictly exceeds 100, formatted entry by entry:
\* nothing with count > 100 is dropped, nothing with count <= 100 is kept.
C1_PaletteIsThresholdFilter ==
  Succeeded =>
    LET kept == SelectSeq(colors.list, OverThreshold)
    IN /\ Len(colors.list) = Len(image.hist)
       /\ Range(colors.list) = Range(image.hist)
       /\ ret.val = [k \in 1..Len(kept) |-> FormatHex(kept[k][2])]
       /\ ((\A e \in Range(image.hist) : e[1] <= 100) => ret.val = << >>)

C1_Witness ==
  /\ Succeeded
  /\ \E e \in Range(image.hist) : e[1] = 100
  /\ \E e \in Range(image.hist) : e[1] = 101
  /\ Len(ret.val) = 1

(* -------------------------------- C2 ------------------------------------ *)

\* C2: the colour lines printed, and the palette returned, are in
\* non-increasing order of the pixel count of the histogram entry they come from.
C2_DescendingCounts ==
  /\ \A i, j \in 1..Len(ColorLines) :
       i < j => ColorLines[i].count >= ColorLines[j].count
  /\ \A k \in 1..Len(ColorLines) :
       \E e \in Range(image.hist) :
         e[1] = ColorLines[k].count /\ FormatHex(e[2]) = ColorLines[k].hex
  /\ Succeeded =>
       /\ Len(ret.val) = Len(ColorLines)
       /\ \A k \in 1..Len(ret.val) : ret.val[k] = ColorLines[k].hex

C2_Witness ==
  /\ Succeeded
  /\ Len(ret.val) = 2
  /\ image.hist[1][1] = 200
  /\ image.hist[2][1] = 500
  /\ ColorLines[1].count = 500
  /\ ColorLines[2].count = 200

(* -------------------------------- C3 ------------------------------------ *)

\* C3: on the error path no accepted-colour line has been written to standard
\* output and no palette is returned.
C3_NoPartialOutput ==
  Failed => Len(ColorLines) = 0 /\ ret.kind # "value"

(* -------------------------------- C4 ------------------------------------ *)

\* C4: in every terminal state of a call the file handle acquired by the open
\* step is no longer held.
C4_FileReleased ==
  pc = "done" => ~fileHeld

(* -------------------------------- C5 ------------------------------------ *)

\* C5: after any failure the call ends without an exception reaching the
\* caller, with exactly one Error line printed and with the result None.
C5_FailureIsSwallowed ==
  (pc = "done" /\ exc # "") =>
     /\ ret.kind = "none"
     /\ ErrorCount = 1

(* -------------------------------- C6 ------------------------------------ *)

\* C6: a successful call returns the hex colours of the colour lines it
\* printed, in the same order; the banner is printed once, before every colour
\* line; during the loop there are as many colour lines as palette entries.
C6_ReturnEqualsPrinted ==
  /\ Succeeded =>
       /\ ret.val = [k \in 1..Len(ColorLines) |-> ColorLines[k].hex]
       /\ BannerCount = 1
  /\ BannerCount <= 1
  /\ \A i \in 1..Len(stdout) :
       stdout[i].kind = "color" => \E j \in 1..(i - 1) : stdout[j].kind = "banner"
  /\ pc = "loop" => Len(ColorLines) = Len(unique_hexes)

C6_Witness ==
  /\ Succeeded
  /\ Len(ret.val) = 2
  /\ Len(stdout) = 3

(* -------------------------------- C7 ------------------------------------ *)

\* C7: no hex string occurs twice in the palette, and at every step of the
\* output loop seen is the set of the elements of unique_hexes.
C7_Unique ==
  /\ Succeeded => NoDuplicates(ret.val)
  /\ pc = "loop" => seen = Range(unique_hexes) /\ NoDuplicates(unique_hexes)

C7_Witness ==
  /\ pc = "loop"
  /\ Len(unique_hexes) = 2
  /\ idx <= Len(colors.list)

(* -------------------------------- C8 ------------------------------------ *)

\* C8: every formatted colour is "#" followed by six lowercase hexadecimal
\* digits, two per channel in the order red, green, blue, and two distinct
\* colours never have the same string.
C8_HexFormat ==
  /\ \A p \in formatted :
       /\ Len(p[2]) = 7
       /\ p[2][1] = "#"
       /\ \A k \in 2..7 : p[2][k] \in Range(HexDigits)
       /\ \A k \in 1..3 : ChannelOf(p[2], k) = p[1][k]
  /\ \A p, q \in formatted : p[2] = q[2] => p[1] = q[1]

C8_Witness ==
  /\ <<1, 16, 0>> \in { p[1] : p \in formatted }
  /\ <<17, 0, 0>> \in { p[1] : p \in formatted }
  /\ <<255, 171, 10>> \in { p[1] : p \in formatted }

(* -------------------------------- C9 ------------------------------------ *)

\* C9: two histogram entries with equal counts above the threshold appear in
\* the palette in the order they have in the histogram getcolors returned.
C9_StableTies ==
  Succeeded =>
    \A i, j \in 1..Len(image.hist) :
      (i < j /\ image.hist[i][1] = image.hist[j][1] /\ image.hist[i][1] > 100) =>
        \E a, b \in 1..Len(ret.val) :
          /\ a < b
          /\ ret.val[a] = FormatHex(image.hist[i][2])
          /\ ret.val[b] = FormatHex(image.hist[j][2])

C9_Witness ==
  /\ Succeeded
  /\ Len(image.hist) = 3
  /\ image.hist[1][1] = 200
  /\ image.hist[2][1] = 500
  /\ image.hist[3][1] = 200
  /\ Len(ret.val) = 3

(* -------------------------------- C10 ----------------------------------- *)

\* C10: a call on an image with more than maxcolors distinct colours ends
\* with an Error line as its only output and with no result.
C10_OverCapFails ==
  (image.distinct > 1000000 /\ pc = "done") =>
     /\ ret.kind = "none"
     /\ BannerCount = 0
     /\ Len(ColorLines) = 0
     /\ ErrorCount = 1

====
